---- MODULE Spec2Model ----
(***************************************************************************)
(* A model of the WAV reader/writer of audio-file-tools: the sample        *)
(* conversions of WavUtils.cpp, the Writer of WavWriter.h/.cpp and the     *)
(* Reader of WavReader.h/.cpp, over a file that is a sequence of bytes.    *)
(***************************************************************************)
EXTENDS Integers, Sequences, FiniteSets, TLC

(***************************************************************************)
(* Bounds of the model.                                                    *)
(***************************************************************************)
\* the largest channel count a configuration of the model carries
MaxChannels == 2
\* the largest number of frames passed to the write calls of one Writer
MaxFrames == 2
\* the largest number of write calls made on one Writer
MaxCalls == 3
\* the largest number of close_file calls made on one Writer
MaxCloses == 2
\* how many of the allowed sample rates the configurations of Spec use
MaxRates == 1

(***************************************************************************)
(* Integer widths.                                                         *)
(***************************************************************************)
MinInt32 == -2147483647 - 1
MaxInt32 == 2147483647

RECURSIVE Pow2(_)
Pow2(n) == IF n = 0 THEN 1 ELSE 2 * Pow2(n - 1)

\* a shift that truncates toward zero
ShrTruncating(x, k) == (x + (IF x < 0 THEN Pow2(k) - 1 ELSE 0)) \div Pow2(k)

\* x >> k on a signed integer: the arithmetic shift
Shr(x, k) == x \div Pow2(k)

\* static_cast<uint8_t>(x): the low 8 bits
ToUint8(x) == x % 256

\* static_cast<int16_t>(x): the low 16 bits, read as two's complement
ToInt16(x) == ((x + 32768) % 65536) - 32768

(***************************************************************************)
(* float: a bit pattern held as a signed 32-bit integer.  A decoded value  *)
(* is [neg, man, ex] standing for (-1)^neg * man * 2^ex with man = 0 or    *)
(* 2^23 <= man < 2^24.  Arithmetic rounds to nearest, ties to even.        *)
(***************************************************************************)
FZero(neg) == [neg |-> neg, man |-> 0, ex |-> 0]

FDecode(bits) ==
    LET mag == IF bits < 0 THEN (bits + MaxInt32) + 1 ELSE bits
        e   == mag \div 8388608
        f   == mag % 8388608
    IN  IF e = 0 THEN FZero(bits < 0)
        ELSE [neg |-> bits < 0, man |-> 8388608 + f, ex |-> e - 150]

FEncode(v) ==
    IF v.man = 0 THEN (IF v.neg THEN MinInt32 ELSE 0)
    ELSE LET mag == (v.ex + 150) * 8388608 + (v.man - 8388608)
         IN  IF v.neg THEN (mag - MaxInt32) - 1 ELSE mag

RECURSIVE BitLen(_)
BitLen(m) == IF m = 0 THEN 0 ELSE 1 + BitLen(m \div 2)

\* m * 2^ex rounded to 24 significant bits; m < 2^31, and when the value
\* was cut before, the lowest bit of m stands for the bits cut off
FRound(neg, m, ex) ==
    IF m = 0 THEN FZero(neg)
    ELSE LET n == BitLen(m)
         IN  IF n <= 24
             THEN [neg |-> neg, man |-> m * Pow2(24 - n), ex |-> ex - (24 - n)]
             ELSE LET s    == n - 24
                      q    == m \div Pow2(s)
                      rem  == m % Pow2(s)
                      half == Pow2(s - 1)
                      up   == rem > half \/ (rem = half /\ q % 2 = 1)
                      q2   == IF up THEN q + 1 ELSE q
                  IN  IF q2 = 16777216
                      THEN [neg |-> neg, man |-> 8388608, ex |-> ex + s + 1]
                      ELSE [neg |-> neg, man |-> q2, ex |-> ex + s]

\* static_cast<float>(n) for a 32-bit signed n
FFromInt(n) ==
    IF n = MinInt32 THEN [neg |-> TRUE, man |-> 8388608, ex |-> 8]
    ELSE FRound(n < 0, IF n < 0 THEN -n ELSE n, 0)

\* a * b
FMul(a, b) ==
    IF a.man = 0 \/ b.man = 0 THEN FZero(a.neg # b.neg)
    ELSE LET a1 == a.man \div 4096
             a0 == a.man % 4096
             b1 == b.man \div 4096
             b0 == b.man % 4096
             c0 == a0 * b0
             c1 == a1 * b0 + a0 * b1
             c2 == a1 * b1
             lo == (c1 % 64) * 4096 + c0
             p  == c2 * 64 + (c1 \div 64) + (lo \div 262144)
             st == IF lo % 262144 = 0 THEN 0 ELSE 1
         IN  FRound(a.neg # b.neg, 2 * p + st, a.ex + b.ex + 17)

RECURSIVE LongDiv(_, _, _, _)
\* <<quotient, remainder>> after `steps` more binary digits of r / d
LongDiv(q, r, d, steps) ==
    IF steps = 0 THEN <<q, r>>
    ELSE LET r2 == 2 * r
         IN  IF r2 >= d THEN LongDiv(2 * q + 1, r2 - d, d, steps - 1)
             ELSE LongDiv(2 * q, r2, d, steps - 1)

\* a / b, b nonzero
FDiv(a, b) ==
    IF a.man = 0 THEN FZero(a.neg # b.neg)
    ELSE LET qr == LongDiv(a.man \div b.man, a.man % b.man, b.man, 26)
             st == IF qr[2] = 0 THEN 0 ELSE 1
         IN  FRound(a.neg # b.neg, 2 * qr[1] + st, a.ex - b.ex - 27)

\* a + b
FAdd(a, b) ==
    IF a.man = 0 THEN (IF b.man = 0 THEN FZero(a.neg /\ b.neg) ELSE b)
    ELSE IF b.man = 0 THEN a
    ELSE LET aBig == a.ex > b.ex \/ (a.ex = b.ex /\ a.man >= b.man)
             x    == IF aBig THEN a ELSE b
             y    == IF aBig THEN b ELSE a
             d    == x.ex - y.ex
             xm   == x.man * 8
             ym   == IF d > 27 THEN 1
                     ELSE LET full == y.man * 8
                              cut  == full \div Pow2(d)
                          IN  IF full % Pow2(d) = 0 THEN cut
                              ELSE (cut \div 2) * 2 + 1
             m    == IF x.neg = y.neg THEN xm + ym ELSE xm - ym
         IN  IF m = 0 THEN FZero(FALSE) ELSE FRound(x.neg, m, x.ex - 3)

FSub(a, b) == FAdd(a, [b EXCEPT !.neg = ~b.neg])

\* whether the value, cut toward zero, fits a signed 32-bit integer
FFitsInt32(v) ==
    v.man = 0 \/ v.ex <= 7 \/ (v.neg /\ v.ex = 8 /\ v.man = 8388608)

\* the value cut toward zero, for a value that fits
FTrunc(v) ==
    IF v.man = 0 \/ v.ex < -24 THEN 0
    ELSE IF v.neg /\ v.ex = 8 THEN MinInt32
    ELSE LET mag == IF v.ex >= 0 THEN v.man * Pow2(v.ex)
                    ELSE v.man \div Pow2(-v.ex)
         IN  IF v.neg THEN -mag ELSE mag

\* the float constants of WavUtils.cpp
F127_5 == [neg |-> FALSE, man |-> 16711680, ex |-> -17]
F32767 == [neg |-> FALSE, man |-> 16776704, ex |-> -9]
F8388607 == [neg |-> FALSE, man |-> 16777214, ex |-> -1]
\* 2147483647.0f is 2^31: the nearest float
F2147483647 == [neg |-> FALSE, man |-> 8388608, ex |-> 8]

(***************************************************************************)
(* The sample conversions of WavUtils.cpp.  A float sample is its bit      *)
(* pattern.  ub names what the build yields where a float is converted to  *)
(* an integer type that cannot hold it (undefined behaviour).              *)
(***************************************************************************)
UBOutcomes == {"min", "max"}

\* static_cast<integer type with range lo..hi>(v)
FToInt(v, lo, hi, ub) ==
    IF FFitsInt32(v) /\ FTrunc(v) >= lo /\ FTrunc(v) <= hi THEN FTrunc(v)
    ELSE IF ub = "min" THEN lo ELSE hi

convert_uint8_to_float(sample) ==
    FEncode(FDiv(FSub(FFromInt(sample), F127_5), F127_5))

convert_int16_to_float(sample) == FEncode(FDiv(FFromInt(sample), F32767))

convert_int32_to_float(sample) == FEncode(FDiv(FFromInt(sample), F2147483647))

convert_float_to_uint8(sample, ub) ==
    FToInt(FAdd(FMul(FDecode(sample), F127_5), F127_5), 0, 255, ub)

\* the high byte of the sample, without the offset of 128
Int16HighByte(sample) == ToUint8(Shr(sample, 8))

convert_int16_to_uint8(sample) == ToUint8((Shr(sample, 8) + 128) % 256)

convert_int32_to_uint8(sample) == ToUint8((Shr(sample, 24) + 128) % 256)

convert_float_to_int16(sample, ub) ==
    FToInt(FMul(FDecode(sample), F32767), -32768, 32767, ub)

convert_uint8_to_int16(sample) == ToInt16((sample - 128) * 256)

convert_int32_to_int16(sample) == ToInt16(Shr(sample, 16))

convert_float_to_int24(sample, ub) ==
    FToInt(FMul(FDecode(sample), F8388607), MinInt32, MaxInt32, ub)

convert_uint8_to_int24(sample) == (sample - 128) * 65536

convert_int16_to_int24(sample) == sample * 256

convert_int32_to_int24(sample) == Shr(sample, 8)

convert_float_to_int32(sample, ub) ==
    FToInt(FMul(FDecode(sample), F2147483647), MinInt32, MaxInt32, ub)

convert_uint8_to_int32(sample) == (sample - 128) * 16777216

convert_int16_to_int32(sample) == sample * 65536

(***************************************************************************)
(* WavConfiguration.h: formats, sample rates, bit depths, configuration.   *)
(***************************************************************************)
PCM == 1
FLOAT == 3

WavSampleRate ==
    <<8000, 11025, 16000, 22050, 32000, 44100, 48000, 96000, 176400,
      192000, 352800, 384000>>

WavBitDepth == {8, 16, 24, 32}

WavFormat == {PCM, FLOAT}

\* the element types the templates accept (AllowedAudioDataType)
AllowedAudioDataType == {"float", "uint8_t", "int16_t", "int32_t"}

\* sizeof(T)
SizeOf(T) == CASE T = "uint8_t" -> 1 [] T = "int16_t" -> 2 [] OTHER -> 4

WavFileConfiguration(sampleRate, numChannels, bitDepth, format) ==
    [sampleRate |-> sampleRate, numChannels |-> numChannels,
     bitDepth |-> bitDepth, format |-> format,
     blockAlign |-> 0, dataChunkSize |-> 0]

\* the member initialisers of WavFileConfiguration
DefaultConfiguration == WavFileConfiguration(16000, 1, 32, FLOAT)

\* a frame count rounded up to whole frames
NumSamplesRoundedUp(m_config) ==
    IF m_config.blockAlign = 0 THEN 0
    ELSE (m_config.dataChunkSize - 1) \div m_config.blockAlign + 1

\* num_samples() of WavFileConfiguration and of WavReader
num_samples(m_config) ==
    IF m_config.blockAlign = 0 THEN 0
    ELSE m_config.dataChunkSize \div m_config.blockAlign

(***************************************************************************)
(* Bytes.  A file is a sequence of bytes; offset k is element k + 1.       *)
(***************************************************************************)
Byte(x, k) == (x \div Pow2(8 * k)) % 256

\* a 16-bit object stored high byte first, as a big-endian build would
LE16BigEndian(x) == <<Byte(x, 1), Byte(x, 0)>>

\* the little-endian bytes of a 16-bit and of a 32-bit object
LE16(x) == <<Byte(x, 0), Byte(x, 1)>>
LE32(x) == <<Byte(x, 0), Byte(x, 1), Byte(x, 2), Byte(x, 3)>>

\* the object representation of one element of type T
ObjectBytes(T, x) ==
    CASE T = "uint8_t" -> <<x>> [] T = "int16_t" -> LE16(x) [] OTHER -> LE32(x)

\* the sequence s with its elements evaluated
Tuple(s) == s \o <<>>

RECURSIVE Flatten(_)
Flatten(ss) == IF ss = <<>> THEN <<>> ELSE Head(ss) \o Flatten(Tail(ss))

TagRIFF == <<82, 73, 70, 70>>
TagWAVE == <<87, 65, 86, 69>>
TagFmt  == <<102, 109, 116, 32>>
TagData == <<100, 97, 116, 97>>

\* ostream::write of bytes at put position pos: <<file, position>> after it
StreamWrite(f, pos, bytes) ==
    LET n == IF pos + Len(bytes) > Len(f) THEN pos + Len(bytes) ELSE Len(f)
    IN  <<Tuple([k \in 1..n |->
              IF k > pos /\ k <= pos + Len(bytes) THEN bytes[k - pos]
              ELSE IF k <= Len(f) THEN f[k] ELSE 0]),
          pos + Len(bytes)>>

\* the bytes of the file at offsets from..from+n-1 that exist
Slice(f, from, n) ==
    LET last == IF from + n > Len(f) THEN Len(f) ELSE from + n
    IN  IF from >= last THEN <<>> ELSE SubSeq(f, from + 1, last)

(***************************************************************************)
(* State.                                                                  *)
(***************************************************************************)
VARIABLES
    proc,     \* "running", or "aborted" once the process was terminated
    exists,   \* whether the file exists on disk
    file,     \* the bytes of the file
    w,        \* the WavWriter object
    hist,     \* the calls made on the Writer: frames passed, write calls,
              \* close calls, the pointer count of the last write call, and
              \* per channel the samples sent to the stream
    r,        \* the WavReader object
    rd,       \* the last read<T>(count) call: T, count, the position of
              \* the stream before it, whether the stream was open and
              \* good, the samples handed to the conversion, and what the
              \* call returned
    other,    \* the second Writer and the second Reader of a move, and the
              \* file of the one that is not on the file above
    calc      \* the last call of a function that has no state: its name,
              \* its arguments and what it returned

vars == <<proc, exists, file, w, hist, r, rd, other, calc>>

(***************************************************************************)
(* The caller's input: for each element type a fixed signal; a write call  *)
(* passes its next count frames.                                           *)
(***************************************************************************)
Signal(T) ==
    CASE T = "uint8_t" -> <<0, 255, 128, 1, 127, 200, 64, 129, 254>>
      [] T = "int16_t" -> <<-32768, 32767, 0, -1, 256, 12345, -12345, 1, 255>>
      [] T = "int32_t" -> <<MinInt32, MaxInt32, 0, -1, 305419896, -305419896,
                            65536, 8388608, 16777215>>
      \* 0.5, -0.5, 1.0, -1.0, 0.0, 0.25, 0.1, 0.75, -0.25
      [] OTHER -> <<1056964608, -1090519040, 1065353216, -1082130432, 0,
                    1048576000, 1036831949, 1061158912, -1098907648>>

\* the sample of frame g (counted over all calls) for channel ch of n
InputSample(T, g, ch, n) == Signal(T)[((g * n + ch) % Len(Signal(T))) + 1]

(***************************************************************************)
(* WavWriter                                                               *)
(***************************************************************************)
NoWriter ==
    [life |-> "none", is_open |-> FALSE, m_config |-> DefaultConfiguration,
     m_totalFileSize |-> 0, pos |-> 0, io |-> 0, finalized |-> 0]

\* the 44 bytes write_header writes, in its 13 stream writes
write_header(m_config) ==
    LET sampleRate  == m_config.sampleRate
        numChannels == m_config.numChannels % 65536
        bitDepth    == m_config.bitDepth
        byteRate    == sampleRate * numChannels * (bitDepth \div 8)
        blockAlign  == (numChannels * (bitDepth \div 8)) % 65536
    IN  TagRIFF \o LE32(0) \o TagWAVE \o TagFmt \o LE32(16)
        \o LE16(m_config.format) \o LE16(numChannels) \o LE32(sampleRate)
        \o LE32(byteRate) \o LE16(blockAlign) \o LE16(bitDepth)
        \o TagData \o LE32(0)

\* a value-initialised vector of size elements after the stores <<index,
\* value>> made in order; a store past the end changes no element of it
AfterStores(size, stores) ==
    Tuple([k \in 1..size |->
        LET hits == {j \in 1..Len(stores) : stores[j][1] = k - 1}
        IN  IF hits = {} THEN 0
            ELSE stores[CHOOSE j \in hits : \A h \in hits : h <= j][2]])

\* whether a store indexes past the end of the vector
StoresPastEnd(size, stores) ==
    \E j \in 1..Len(stores) : stores[j][1] >= size

\* the conversion each write path applies to an input sample of type T
ToFloat32(T, x) ==
    CASE T = "float" -> x
      [] T = "uint8_t" -> convert_uint8_to_float(x)
      [] T = "int16_t" -> convert_int16_to_float(x)
      [] T = "int32_t" -> convert_int32_to_float(x)

ToPcm8(T, x, ub) ==
    CASE T = "float" -> convert_float_to_uint8(x, ub)
      [] T = "uint8_t" -> x
      [] T = "int16_t" -> convert_int16_to_uint8(x)
      [] T = "int32_t" -> convert_int32_to_uint8(x)

ToPcm16(T, x, ub) ==
    CASE T = "float" -> convert_float_to_int16(x, ub)
      [] T = "uint8_t" -> convert_uint8_to_int16(x)
      [] T = "int16_t" -> x
      [] T = "int32_t" -> convert_int32_to_int16(x)

ToPcm24(T, x, ub) ==
    CASE T = "float" -> convert_float_to_int24(x, ub)
      [] T = "uint8_t" -> convert_uint8_to_int24(x)
      [] T = "int16_t" -> convert_int16_to_int24(x)
      [] T = "int32_t" -> convert_int32_to_int24(x)

ToPcm32(T, x, ub) ==
    CASE T = "float" -> convert_float_to_int32(x, ub)
      [] T = "uint8_t" -> convert_uint8_to_int32(x)
      [] T = "int16_t" -> convert_int16_to_int32(x)
      [] T = "int32_t" -> x

\* a channel-major index: channel ch's samples one after another
ChannelMajorIndex(i, ch, numChannels) == ch * numChannels + i

\* the index the fixed-width write paths store frame i, channel ch at
InterleavedIndex(i, ch, numChannels) == i * numChannels + ch

\* the index write_to_pcm24 stores byte k of frame i, channel ch at
Pcm24Index(i, ch, k, numChannels) ==
    ((i * numChannels + ch) * 3 + k) * numChannels + ch

\* the conversion of the write path whose vector has elements of type elem
ConvertTo(elem, T, x, ub) ==
    CASE elem = "float" -> ToFloat32(T, x)
      [] elem = "uint8_t" -> ToPcm8(T, x, ub)
      [] elem = "int16_t" -> ToPcm16(T, x, ub)
      [] elem = "int32_t" -> ToPcm32(T, x, ub)

\* the stores of the loops of write_to_float32/pcm8/pcm16/pcm32, in order
FixedStores(elem, T, sampleArrays, count, numChannels, ub) ==
    Tuple([j \in 1..(count * numChannels) |->
        LET i  == (j - 1) \div numChannels
            ch == (j - 1) % numChannels
        IN  <<InterleavedIndex(i, ch, numChannels),
              ConvertTo(elem, T, sampleArrays[ch + 1][i + 1], ub)>>])

\* each write path: the element type of its vector, the vector after the
\* loops, whether a store went past its end, and write_samples' ignoreSize
write_to_float32(T, sampleArrays, count, numChannels) ==
    LET stores == FixedStores("float", T, sampleArrays, count, numChannels,
                              "min")
    IN  [elem |-> "float", ignoreSize |-> FALSE,
         interleavedSamples |-> AfterStores(count * numChannels, stores),
         pastEnd |-> StoresPastEnd(count * numChannels, stores)]

write_to_pcm8(T, sampleArrays, count, numChannels, ub) ==
    LET stores == FixedStores("uint8_t", T, sampleArrays, count, numChannels,
                              ub)
    IN  [elem |-> "uint8_t", ignoreSize |-> FALSE,
         interleavedSamples |-> AfterStores(count * numChannels, stores),
         pastEnd |-> StoresPastEnd(count * numChannels, stores)]

write_to_pcm16(T, sampleArrays, count, numChannels, ub) ==
    LET stores == FixedStores("int16_t", T, sampleArrays, count, numChannels,
                              ub)
    IN  [elem |-> "int16_t", ignoreSize |-> FALSE,
         interleavedSamples |-> AfterStores(count * numChannels, stores),
         pastEnd |-> StoresPastEnd(count * numChannels, stores)]

write_to_pcm24(T, sampleArrays, count, numChannels, ub) ==
    LET size   == count * numChannels * 3
        stores ==
            Tuple([j \in 1..size |->
                LET i      == (j - 1) \div (3 * numChannels)
                    ch     == ((j - 1) \div 3) % numChannels
                    k      == (j - 1) % 3
                    sample == ToPcm24(T, sampleArrays[ch + 1][i + 1], ub)
                IN  <<Pcm24Index(i, ch, k, numChannels), Byte(sample, k)>>])
    IN  [elem |-> "uint8_t", ignoreSize |-> TRUE,
         interleavedSamples |-> AfterStores(size, stores),
         pastEnd |-> StoresPastEnd(size, stores)]

write_to_pcm32(T, sampleArrays, count, numChannels, ub) ==
    LET stores == FixedStores("int32_t", T, sampleArrays, count, numChannels,
                              ub)
    IN  [elem |-> "int32_t", ignoreSize |-> FALSE,
         interleavedSamples |-> AfterStores(count * numChannels, stores),
         pastEnd |-> StoresPastEnd(count * numChannels, stores)]

\* the dispatch of write_buffer, for a configuration it has a path for
write_buffer(T, sampleArrays, count, m_config, ub) ==
    LET n == m_config.numChannels
    IN  IF m_config.format = FLOAT
        THEN write_to_float32(T, sampleArrays, count, n)
        ELSE CASE m_config.bitDepth = 8 ->
                    write_to_pcm8(T, sampleArrays, count, n, ub)
               [] m_config.bitDepth = 16 ->
                    write_to_pcm16(T, sampleArrays, count, n, ub)
               [] m_config.bitDepth = 24 ->
                    write_to_pcm24(T, sampleArrays, count, n, ub)
               [] m_config.bitDepth = 32 ->
                    write_to_pcm32(T, sampleArrays, count, n, ub)

\* a total that counts elements where bytes are due
SizeAddedElements(formatted) == Len(formatted.interleavedSamples)

\* what write_samples adds to m_totalFileSize
SizeAdded(formatted) ==
    IF formatted.ignoreSize THEN Len(formatted.interleavedSamples)
    ELSE Len(formatted.interleavedSamples) * SizeOf(formatted.elem)

\* the bytes write_samples hands to the stream
FormattedBytes(formatted) ==
    Flatten(Tuple([k \in 1..Len(formatted.interleavedSamples) |->
                ObjectBytes(formatted.elem, formatted.interleavedSamples[k])]))

\* a write_samples that puts the bytes at the start of the file
WriteSamplesAtStart(wr, f, formatted) ==
    LET out == StreamWrite(f, 0, FormattedBytes(formatted))
    IN  [w |-> [wr EXCEPT !.m_totalFileSize = @ + SizeAdded(formatted),
                          !.io = @ + 1],
         file |-> IF wr.is_open THEN out[1] ELSE f]

\* the Writer and the file after write_samples; a stream that is not open
\* stores nothing
write_samples(wr, f, formatted) ==
    LET out == StreamWrite(f, wr.pos, FormattedBytes(formatted))
    IN  [w |-> [wr EXCEPT !.m_totalFileSize = @ + SizeAdded(formatted),
                          !.pos = IF wr.is_open THEN out[2] ELSE @,
                          !.io = @ + 1],
         file |-> IF wr.is_open THEN out[1] ELSE f]

\* the file after finalize_header: two seeks, two writes
finalize_header(wr, f) ==
    LET chunkSize == 36 + wr.m_totalFileSize
        f1 == StreamWrite(f, 4, LE32(chunkSize))[1]
    IN  StreamWrite(f1, 40, LE32(wr.m_totalFileSize))[1]

\* a close_file without its is_open test
WriterClosedUnguarded(wr, f) ==
    [w |-> [wr EXCEPT !.is_open = FALSE, !.pos = 44, !.io = @ + 4,
                      !.finalized = @ + 1],
     file |-> finalize_header(wr, f)]

\* the Writer and the file after close_file
WriterClosed(wr, f) ==
    IF ~wr.is_open THEN [w |-> wr, file |-> f]
    ELSE [w |-> [wr EXCEPT !.is_open = FALSE, !.pos = 44, !.io = @ + 4,
                           !.finalized = @ + 1],
          file |-> finalize_header(wr, f)]

(***************************************************************************)
(* WavReader                                                               *)
(***************************************************************************)
NoReader ==
    [life |-> "none", is_open |-> FALSE, m_config |-> DefaultConfiguration,
     pos |-> 0, eof |-> FALSE, fail |-> FALSE,
     foundFmt |-> FALSE, foundData |-> FALSE]

NoRead ==
    [T |-> "none", count |-> 0, pos |-> 0, good |-> FALSE, raw |-> <<>>,
     out |-> <<>>]

\* the objects of a move and the function of a call, before there is one
NoOther ==
    [w |-> NoWriter, wmoved |-> FALSE, r |-> NoReader, rmoved |-> FALSE,
     exists |-> FALSE, file |-> <<>>, acts |-> 0]

NoCalc == [fn |-> "none", arg |-> <<>>, done |-> FALSE, out |-> 0]

\* istream::read of n bytes: the bytes stored and the stream after it.  A
\* stream that is not good stores nothing; a short read sets eofbit and
\* failbit.
StreamRead(f, rr, n) ==
    IF rr.eof \/ rr.fail
    THEN [bytes |-> <<>>, r |-> [rr EXCEPT !.fail = TRUE]]
    ELSE LET got == IF rr.is_open THEN Slice(f, rr.pos, n) ELSE <<>>
         IN  [bytes |-> got,
              r |-> [rr EXCEPT !.pos = @ + Len(got),
                               !.eof = Len(got) < n,
                               !.fail = Len(got) < n]]

\* istream::seekg(off, cur): clears eofbit, moves unless the stream failed;
\* a file stream may be positioned past the end of its file
SeekCur(rr, off) ==
    IF rr.fail THEN [rr EXCEPT !.eof = FALSE]
    ELSE [rr EXCEPT !.eof = FALSE, !.pos = @ + off]

\* the unsigned little-endian value of at most four bytes stored into a
\* zeroed object
LEValue(bytes) ==
    CHOOSE value \in {object[1] + 256 * object[2] + 65536 * object[3]
                          + 16777216 * object[4] :
                      object \in {bytes \o <<0, 0, 0, 0>>}} : TRUE

\* the element of type T whose object representation is bytes
ObjectValue(T, bytes) ==
    CASE T = "uint8_t" -> bytes[1]
      [] T = "int16_t" -> ToInt16(bytes[1] + 256 * bytes[2])
      [] OTHER -> bytes[1] + 256 * bytes[2] + 65536 * bytes[3]
                  + 16777216 * (IF bytes[4] >= 128 THEN bytes[4] - 256
                                ELSE bytes[4])

\* the fmt branch of read_header, the 16 bytes of the fields read in full:
\* the configuration after the assignments, or "false" where it returns
FmtFields(m_config, bytes) ==
    LET audioFormat == LEValue(SubSeq(bytes, 1, 2))
        numChannels == LEValue(SubSeq(bytes, 3, 4))
        sampleRate  == LEValue(SubSeq(bytes, 5, 8))
        blockAlign  == LEValue(SubSeq(bytes, 13, 14))
        bitDepth    == LEValue(SubSeq(bytes, 15, 16))
        ok == /\ audioFormat = 1 \/ audioFormat = 3
              /\ numChannels > 0
              /\ bitDepth = 8 \/ bitDepth = 16 \/ bitDepth = 24 \/ bitDepth = 32
              /\ \E k \in 1..Len(WavSampleRate) : sampleRate = WavSampleRate[k]
              /\ ~(audioFormat = FLOAT /\ bitDepth # 32)
    IN  [ok |-> ok,
         m_config |-> [m_config EXCEPT !.format = audioFormat,
                                       \* uint16_t stored into a uint8_t
                                       !.numChannels = numChannels % 256,
                                       !.bitDepth = bitDepth,
                                       !.sampleRate = sampleRate,
                                       !.blockAlign = blockAlign]]

\* a skip by the declared size as it is
UnpaddedSize(subchunkSize) == subchunkSize

\* a skip that goes back to the header of the chunk
RewindSize(subchunkSize) == -8

\* (subchunkSize + 1) & ~1: the declared size, rounded up to an even number
PaddedSize(subchunkSize) == ((subchunkSize + 1) \div 2) * 2

\* one pass of the chunk loop of read_header, its test included: the Reader
\* after it and "loop" (go on), "true" or "false" (what read_header returns)
ScanChunkStep(rr, f) ==
    IF rr.fail \/ (rr.foundFmt /\ rr.foundData)
    THEN [r |-> rr,
          go |-> IF rr.foundFmt /\ rr.foundData THEN "true" ELSE "false"]
    ELSE
    LET id == StreamRead(f, rr, 4)
    IN  IF Len(id.bytes) # 4
        THEN [r |-> id.r,
              go |-> IF rr.foundFmt /\ rr.foundData THEN "true" ELSE "false"]
        ELSE
        LET sz == StreamRead(f, id.r, 4)
            subchunkSize == LEValue(sz.bytes)
        IN  IF id.bytes = TagFmt
            THEN LET fields == StreamRead(f, sz.r, 16)
                     fmtExtraBytes == subchunkSize - 16
                     r1 == IF fmtExtraBytes > 0
                           THEN SeekCur(fields.r, fmtExtraBytes)
                           ELSE fields.r
                     r2 == [r1 EXCEPT !.foundFmt = TRUE]
                 IN  \* fields not read are indeterminate: whether or not
                     \* they pass the tests, the stream has failed and
                     \* read_header returns false
                     IF Len(fields.bytes) < 16 THEN [r |-> r2, go |-> "false"]
                     ELSE LET v == FmtFields(r2.m_config, fields.bytes)
                          IN  IF ~v.ok \/ r2.fail
                              THEN [r |-> r2, go |-> "false"]
                              ELSE [r |-> [r2 EXCEPT !.m_config = v.m_config],
                                    go |-> "loop"]
            ELSE IF id.bytes = TagData
            THEN LET r1 == [sz.r EXCEPT !.foundData = TRUE,
                                        !.m_config.dataChunkSize = subchunkSize]
                 IN  [r |-> r1, go |-> IF r1.fail THEN "false" ELSE "loop"]
            ELSE LET r1 == SeekCur(sz.r, PaddedSize(subchunkSize))
                 IN  [r |-> r1, go |-> IF r1.fail THEN "false" ELSE "loop"]

\* a read that leaves the stream where it was
ReadSamplesInPlace(E, count, rr, f) ==
    LET n           == rr.m_config.numChannels
        got         == StreamRead(f, rr, count * n * SizeOf(E))
        samplesRead == Len(got.bytes) \div SizeOf(E)
        framesRead  == samplesRead \div n
        interleavedSamples(k) ==
            ObjectValue(E, SubSeq(got.bytes, k * SizeOf(E) + 1,
                                  (k + 1) * SizeOf(E)))
    IN  [r |-> rr,
         samples |-> Tuple([j \in 1..n |-> Tuple([i \in 1..framesRead |->
                         interleavedSamples((i - 1) * n + (j - 1))])])]

\* read_samples<E>(count): the deinterleaved frames and the stream after it
read_samples(E, count, rr, f) ==
    LET n           == rr.m_config.numChannels
        got         == StreamRead(f, rr, count * n * SizeOf(E))
        samplesRead == Len(got.bytes) \div SizeOf(E)
        framesRead  == samplesRead \div n
        interleavedSamples(k) ==
            ObjectValue(E, SubSeq(got.bytes, k * SizeOf(E) + 1,
                                  (k + 1) * SizeOf(E)))
    IN  [r |-> got.r,
         samples |-> Tuple([j \in 1..n |-> Tuple([i \in 1..framesRead |->
                         interleavedSamples((i - 1) * n + (j - 1))])])]

\* a 24-bit value taken as it is, its top byte zero
NoSignExtend(sample) == sample

\* (sample & 0x800000) ? sample | 0xFF000000 : sample
SignExtend24(sample) ==
    IF (sample \div 8388608) % 2 = 1 THEN sample - 16777216 ELSE sample

\* the BIT_DEPTH_24 case of read, up to its convert_samples call: the raw
\* vector of count * numChannels * 3 zeroed bytes filled by the stream, put
\* together three bytes a sample and sign-extended
read_pcm24(count, rr, f) ==
    LET n   == rr.m_config.numChannels
        got == StreamRead(f, rr, count * n * 3)
        interleavedSamples(k) ==
            IF k < Len(got.bytes) THEN got.bytes[k + 1] ELSE 0
        sample(i, j) ==
            interleavedSamples((i * n + j) * 3)
            + 256 * interleavedSamples((i * n + j) * 3 + 1)
            + 65536 * interleavedSamples((i * n + j) * 3 + 2)
    IN  [r |-> got.r,
         samples |-> Tuple([j \in 1..n |-> Tuple([i \in 1..count |->
                         SignExtend24(sample(i - 1, j - 1))])])]

\* the float a converter returned, stored into an element of type T
FloatAs(T, x, ub) ==
    CASE T = "float" -> x
      [] T = "uint8_t" -> FToInt(FDecode(x), 0, 255, ub)
      [] T = "int16_t" -> FToInt(FDecode(x), -32768, 32767, ub)
      [] T = "int32_t" -> FToInt(FDecode(x), MinInt32, MaxInt32, ub)

\* the converter read<T> hands to convert_samples for each on-disk type E
FromFloat32(T, x, ub) ==
    CASE T = "float" -> x
      [] T = "uint8_t" -> convert_float_to_uint8(x, ub)
      [] T = "int16_t" -> convert_float_to_int16(x, ub)
      [] T = "int32_t" -> convert_float_to_int32(x, ub)

FromPcm8(T, x) ==
    CASE T = "float" -> convert_uint8_to_float(x)
      [] T = "uint8_t" -> x
      [] T = "int16_t" -> convert_uint8_to_int16(x)
      [] T = "int32_t" -> convert_uint8_to_int32(x)

FromPcm16(T, x) ==
    CASE T = "float" -> convert_int16_to_float(x)
      [] T = "uint8_t" -> convert_int16_to_uint8(x)
      [] T = "int16_t" -> x
      [] T = "int32_t" -> convert_int16_to_int32(x)

FromPcm24(T, x, ub) == FloatAs(T, convert_int32_to_float(x), ub)

FromPcm32(T, x) ==
    CASE T = "float" -> convert_int32_to_float(x)
      [] T = "uint8_t" -> convert_int32_to_uint8(x)
      [] T = "int16_t" -> convert_int32_to_int16(x)
      [] T = "int32_t" -> x

\* the converter read<T> passes for samples read as type From
Converter(From, T, x, ub) ==
    CASE From = "float" -> FromFloat32(T, x, ub)
      [] From = "uint8_t" -> FromPcm8(T, x)
      [] From = "int16_t" -> FromPcm16(T, x)
      [] From = "int24" -> FromPcm24(T, x, ub)
      [] From = "int32_t" -> FromPcm32(T, x)

\* convert_samples: the converter applied to every sample of every channel
convert_samples(From, T, input, ub) ==
    Tuple([j \in 1..Len(input) |-> Tuple([i \in 1..Len(input[1]) |->
        Converter(From, T, input[j][i], ub)])])

\* read<T>(count): the per-channel vectors returned and the stream after it
read(T, count, rr, f, ub) ==
    LET m_config == rr.m_config
        From == IF m_config.format = FLOAT THEN "float"
                ELSE CASE m_config.bitDepth = 8 -> "uint8_t"
                       [] m_config.bitDepth = 16 -> "int16_t"
                       [] m_config.bitDepth = 24 -> "int24"
                       [] m_config.bitDepth = 32 -> "int32_t"
        s == IF From = "int24" THEN read_pcm24(count, rr, f)
             ELSE read_samples(From, count, rr, f)
    IN  [r |-> s.r, samples |-> s.samples,
         out |-> convert_samples(From, T, s.samples, ub)]

(***************************************************************************)
(* Operations of the Writer.                                               *)
(***************************************************************************)
\* the configurations the callers of the model pass to WavWriter::create
Configurations ==
    {WavFileConfiguration(WavSampleRate[k], n, b, fm) :
        k \in 1..MaxRates, n \in 1..MaxChannels, b \in WavBitDepth,
        fm \in WavFormat}

\* a failed check that returned to the caller instead
ReturnError ==
    /\ proc' = proc
    /\ UNCHANGED <<exists, file, w, r, rd, other, calc>>

\* a failed assert, or a fault, ends the process
Abort ==
    /\ proc' = "aborted"
    /\ UNCHANGED <<exists, file, w, r, rd, other, calc>>

\* WavWriter::create(configuration); opens: whether the path can be opened
\* for writing.  The Writer returned is move-constructed from the one that
\* wrote the header.
WriterCreate(configuration, opens) ==
    /\ proc = "running" /\ w.life = "none" /\ r.life = "none"
    /\ IF opens
       THEN /\ w' = [NoWriter EXCEPT !.life = "live", !.is_open = TRUE,
                                     !.m_config = configuration,
                                     !.pos = 44, !.io = 13]
            /\ file' = write_header(configuration)
            /\ exists' = TRUE
       ELSE /\ w' = [NoWriter EXCEPT !.life = "absent"]
            /\ UNCHANGED <<exists, file>>
    /\ hist' = [passed |-> 0, calls |-> 0, closes |-> 0, np |-> 0,
                sent |-> Tuple([c \in 1..configuration.numChannels |-> <<>>])]
    /\ UNCHANGED <<proc, r, rd, other, calc>>

\* write<T>(count, samples, rest...) with np pointers.  ub and heap name
\* what the build does where the behaviour is undefined: a float that the
\* integer type cannot hold, a store past the end of the vector.
Write(T, count, np, ub, heap) ==
    /\ proc = "running" /\ w.life = "live"
    /\ hist.passed + count <= MaxFrames /\ hist.calls < MaxCalls
    /\ LET sampleArrays ==
               Tuple([c \in 1..np |-> Tuple([i \in 1..count |->
                   InputSample(T, hist.passed + i - 1, c - 1, np)])])
           formatted ==
               write_buffer(T, sampleArrays, count, w.m_config, ub)
           after == write_samples(w, file, formatted)
           called == [hist EXCEPT !.calls = @ + 1, !.np = np]
       IN  IF np # w.m_config.numChannels
           THEN    \* assert(num_arrays == m_config.numChannels)
                Abort /\ hist' = called
           ELSE IF w.m_config.format = FLOAT /\ w.m_config.bitDepth # 32
           THEN    \* assert(m_config.bitDepth == BIT_DEPTH_32)
                Abort /\ hist' = called
           ELSE IF formatted.pastEnd /\ heap = "abort"
           THEN Abort /\ hist' = called
           ELSE /\ w' = after.w
                /\ file' = after.file
                /\ hist' = [passed |-> hist.passed + count,
                            calls |-> hist.calls + 1,
                            closes |-> hist.closes,
                            np |-> np,
                            sent |-> IF w.is_open
                                     THEN Tuple([c \in 1..np |->
                                         hist.sent[c] \o
                                         [i \in 1..count |->
                                             <<T, sampleArrays[c][i]>>]])
                                     ELSE hist.sent]
                /\ UNCHANGED <<proc, exists, r, rd, other, calc>>

\* WavWriter::close_file()
WriterClose ==
    /\ proc = "running" /\ w.life = "live" /\ hist.closes < MaxCloses
    /\ w' = WriterClosed(w, file).w
    /\ file' = WriterClosed(w, file).file
    /\ hist' = [hist EXCEPT !.closes = @ + 1]
    /\ UNCHANGED <<proc, exists, r, rd, other, calc>>

\* a destructor that closes the stream and leaves the header as it is
WriterDestroyUnfinalized ==
    /\ proc = "running" /\ w.life = "live"
    /\ w' = [w EXCEPT !.life = "destroyed", !.is_open = FALSE,
                      !.m_totalFileSize = 0, !.pos = 0, !.io = 0]
    /\ hist' = [hist EXCEPT !.calls = 0, !.closes = 0, !.np = 0]
    /\ UNCHANGED <<proc, exists, file, r, rd, other, calc>>

\* WavWriter::~WavWriter(): close_file() if the stream is open; the members
\* of the object end with it (only its configuration and the count of header
\* finalizations stay on record)
WriterDestroy ==
    /\ proc = "running" /\ w.life = "live"
    /\ w' = [WriterClosed(w, file).w EXCEPT !.life = "destroyed",
                 !.m_totalFileSize = 0, !.pos = 0, !.io = 0]
    /\ file' = WriterClosed(w, file).file
    /\ hist' = [hist EXCEPT !.calls = 0, !.closes = 0, !.np = 0]
    /\ UNCHANGED <<proc, exists, r, rd, other, calc>>

(***************************************************************************)
(* Operations of the Reader.                                               *)
(***************************************************************************)
\* a create that returns std::nullopt and keeps the stream open
ReaderAbsentStreamOpen == [NoReader EXCEPT !.life = "absent", !.is_open = TRUE]

\* WavReader::create returning std::nullopt: the Reader it worked on is
\* destroyed, which closes its stream
ReaderAbsent == [NoReader EXCEPT !.life = "absent"]

\* WavReader::create up to open_file's stream open; the caller opens the
\* file for reading once the Writer's lifetime is over
ReaderOpenFile ==
    /\ proc = "running" /\ r.life = "none" /\ w.life # "live"
    /\ r' = IF exists
            THEN [NoReader EXCEPT !.life = "scan_riff", !.is_open = TRUE]
            ELSE ReaderAbsent
    /\ UNCHANGED <<proc, exists, file, w, hist, rd, other, calc>>

\* read_header: the RIFF id and the chunk size
ScanRiff ==
    /\ proc = "running" /\ r.life = "scan_riff"
    /\ LET chunkId   == StreamRead(file, r, 4)
           chunkSize == StreamRead(file, chunkId.r, 4)
       IN  r' = IF chunkId.bytes # TagRIFF THEN ReaderAbsent
                ELSE [chunkSize.r EXCEPT !.life = "scan_wave"]
    /\ UNCHANGED <<proc, exists, file, w, hist, rd, other, calc>>

\* read_header: the WAVE id
ScanWave ==
    /\ proc = "running" /\ r.life = "scan_wave"
    /\ LET format == StreamRead(file, r, 4)
       IN  r' = IF format.bytes # TagWAVE THEN ReaderAbsent
                ELSE [format.r EXCEPT !.life = "scan_chunks"]
    /\ UNCHANGED <<proc, exists, file, w, hist, rd, other, calc>>

\* read_header: one pass of the chunk loop; at its end create returns the
\* Reader, move-constructed, or std::nullopt
ScanChunk ==
    /\ proc = "running" /\ r.life = "scan_chunks"
    /\ \E step \in {ScanChunkStep(r, file)} :
           r' = CASE step.go = "loop" -> step.r
                  [] step.go = "true" -> [step.r EXCEPT !.life = "live"]
                  [] step.go = "false" -> ReaderAbsent
    /\ UNCHANGED <<proc, exists, file, w, hist, rd, other, calc>>

\* read<T>(count)
Read(T, count, ub) ==
    /\ proc = "running" /\ r.life = "live"
    /\ IF r.m_config.numChannels = 0
       THEN    \* a division by zero in read_samples
            Abort /\ UNCHANGED hist
       ELSE LET res == read(T, count, r, file, ub)
            IN  /\ r' = res.r
                /\ rd' = [T |-> T, count |-> count, pos |-> r.pos,
                          good |-> r.is_open /\ ~r.eof /\ ~r.fail,
                          raw |-> res.samples, out |-> res.out]
                /\ UNCHANGED <<proc, exists, file, w, hist, other, calc>>

\* WavReader::close_file()
ReaderClose ==
    /\ proc = "running" /\ r.life = "live"
    /\ r' = [r EXCEPT !.is_open = FALSE]
    /\ UNCHANGED <<proc, exists, file, w, hist, rd, other, calc>>

\* WavReader::~WavReader(): close_file(); the members of the object end
\* with it
ReaderDestroy ==
    /\ proc = "running" /\ r.life = "live"
    /\ r' = [NoReader EXCEPT !.life = "destroyed"]
    /\ UNCHANGED <<proc, exists, file, w, hist, rd, other, calc>>

(***************************************************************************)
(* Specification: a Writer is created, written to and closed or destroyed, *)
(* and a Reader then opens the file.                                       *)
(***************************************************************************)
Init ==
    /\ proc = "running"
    /\ exists = FALSE
    /\ file = <<>>
    /\ w = NoWriter
    /\ hist = [passed |-> 0, calls |-> 0, closes |-> 0, np |-> 0,
               sent |-> <<>>]
    /\ r = NoReader
    /\ rd = NoRead
    /\ other = NoOther
    /\ calc = NoCalc

Next ==
    \/ \E configuration \in Configurations, opens \in BOOLEAN :
          WriterCreate(configuration, opens)
    \/ \E T \in AllowedAudioDataType, count \in 0..MaxFrames,
          np \in 1..MaxChannels, ub \in UBOutcomes,
          heap \in {"abort", "continue"} :
          Write(T, count, np, ub, heap)
    \/ WriterClose
    \/ WriterDestroy
    \/ ReaderOpenFile
    \/ ScanRiff
    \/ ScanWave
    \/ ScanChunk
    \/ \E T \in AllowedAudioDataType, count \in 0..(MaxFrames + 1),
          ub \in UBOutcomes :
          Read(T, count, ub)
    \/ ReaderClose
    \/ ReaderDestroy

Spec == Init /\ [][Next]_vars

(***************************************************************************)
(* Specification: the Writer alone.                                        *)
(***************************************************************************)
NextW ==
    \/ \E configuration \in Configurations, opens \in BOOLEAN :
          WriterCreate(configuration, opens)
    \/ \E T \in AllowedAudioDataType, count \in 0..MaxFrames,
          np \in 1..MaxChannels, ub \in UBOutcomes,
          heap \in {"abort", "continue"} :
          Write(T, count, np, ub, heap)
    \/ WriterClose
    \/ WriterDestroy

SpecW == Init /\ [][NextW]_vars

(***************************************************************************)
(* Files that no Writer of this library wrote: the input of the Reader.    *)
(***************************************************************************)
\* a fmt chunk: its 16 fields, then extra bytes
FmtChunk(format, numChannels, sampleRate, bitDepth, extra) ==
    LET blockAlign == (numChannels * bitDepth) \div 8
    IN  TagFmt \o LE32(16 + extra) \o LE16(format) \o LE16(numChannels)
            \o LE32(sampleRate) \o LE32(sampleRate * blockAlign)
            \o LE16(blockAlign) \o LE16(bitDepth)
            \o Tuple([i \in 1..extra |-> 0])

\* a data chunk
DataChunk(payload) == TagData \o LE32(Len(payload)) \o payload

\* a chunk of another kind, padded to an even length
OtherChunk(id, payload) ==
    id \o LE32(Len(payload)) \o payload
       \o (IF Len(payload) % 2 = 1 THEN <<0>> ELSE <<>>)

\* a RIFF file of the given form type holding the given chunks
RiffFile(riff, wave, chunks) == riff \o LE32(4 + Len(chunks)) \o wave \o chunks

TagLIST == <<76, 73, 83, 84>>
TagRIFX == <<82, 73, 70, 88>>
TagAVI  == <<65, 86, 73, 32>>

\* the fields of the fmt chunks of the files: every supported combination,
\* every allowed rate, and unsupported values of each field
FmtValues ==
    {<<fm, n, 44100, b>> : fm \in WavFormat, n \in 1..MaxChannels,
                           b \in WavBitDepth}
    \cup {<<PCM, 1, WavSampleRate[k], 16>> : k \in 1..Len(WavSampleRate)}
    \cup {<<PCM, 1, rate, 16>> : rate \in {0, 8001, 12000, 384001}}
    \cup {<<fm, 1, 8000, 16>> : fm \in {0, 2, 65534}}
    \cup {<<PCM, n, 8000, 8>> : n \in {0, 255, 256, 257}}
    \cup {<<PCM, 1, 8000, b>> : b \in {0, 12, 64}}

\* a payload of four bytes, and one that spells a fmt chunk
Payload == <<1, 2, 3, 4>>
FmtPayload == FmtChunk(PCM, 1, 8000, 8, 0)

\* the chunks of a file in each arrangement
Layouts == 1..13
Chunks(layout, v) ==
    LET fmt == FmtChunk(v[1], v[2], v[3], v[4], 0)
    IN  CASE layout = 1 -> fmt \o DataChunk(Payload)
          [] layout = 2 -> OtherChunk(TagLIST, <<7, 7, 7>>) \o fmt
                               \o DataChunk(Payload)
          [] layout = 3 -> fmt \o OtherChunk(TagLIST, <<7, 7>>)
                               \o DataChunk(Payload)
          [] layout = 4 -> FmtChunk(v[1], v[2], v[3], v[4], 2)
                               \o DataChunk(Payload)
          [] layout = 5 -> fmt \o DataChunk(Payload)
                               \o OtherChunk(TagLIST, <<7>>)
          [] layout = 6 -> DataChunk(Payload) \o fmt
          [] layout = 7 -> DataChunk(FmtPayload) \o fmt
          [] layout = 8 -> fmt
          [] layout = 10 -> OtherChunk(TagLIST, <<7>>)
                                \o OtherChunk(TagLIST, <<>>) \o fmt
                                \o DataChunk(Payload)
          [] layout = 11 -> OtherChunk(TagLIST, <<7, 7>>)
                                \o OtherChunk(TagLIST, <<7, 7, 7>>) \o fmt
                                \o DataChunk(Payload)
          \* a fmt chunk whose blockAlign field is 3
          [] layout = 12 -> SubSeq(fmt, 1, 20) \o LE16(3)
                                \o SubSeq(fmt, 23, Len(fmt))
                                \o DataChunk(Payload)
          \* a chunk of another kind that declares 2147483392 bytes
          [] layout = 13 -> TagLIST \o LE32(2147483392) \o <<7, 7>> \o fmt
                                \o DataChunk(Payload)
          [] OTHER      -> DataChunk(Payload)

BaseFile == RiffFile(TagRIFF, TagWAVE, Chunks(1, <<PCM, 1, 8000, 16>>))

CraftedFiles ==
    {RiffFile(TagRIFF, TagWAVE, Chunks(layout, v)) :
        layout \in Layouts, v \in FmtValues}
    \cup {RiffFile(TagRIFX, TagWAVE, Chunks(1, <<PCM, 1, 8000, 16>>)),
          RiffFile(TagRIFF, TagAVI, Chunks(1, <<PCM, 1, 8000, 16>>))}
    \cup {Slice(BaseFile, 0, n) : n \in 0..(Len(BaseFile) - 1)}

(***************************************************************************)
(* Specification: a Reader opens a file that is there or not, and reads.   *)
(***************************************************************************)
InitR ==
    /\ proc = "running"
    /\ \/ exists = FALSE /\ file = <<>>
       \/ exists = TRUE /\ file \in CraftedFiles
    /\ w = NoWriter
    /\ hist = [passed |-> 0, calls |-> 0, closes |-> 0, np |-> 0,
               sent |-> <<>>]
    /\ r = NoReader
    /\ rd = NoRead
    /\ other = NoOther
    /\ calc = NoCalc

NextR ==
    \/ ReaderOpenFile
    \/ ScanRiff
    \/ ScanWave
    \/ ScanChunk
    \/ \E T \in AllowedAudioDataType, count \in 1..MaxFrames,
          ub \in UBOutcomes :
          Read(T, count, ub)
    \/ ReaderClose
    \/ ReaderDestroy

SpecR == InitR /\ [][NextR]_vars

\* WavReader::create alone: once called, open_file and read_header run to
\* their return
NextRL ==
    \/ ReaderOpenFile
    \/ ScanRiff
    \/ ScanWave
    \/ ScanChunk

SpecRL ==
    /\ InitR /\ [][NextRL]_vars
    /\ WF_vars(ScanRiff) /\ WF_vars(ScanWave) /\ WF_vars(ScanChunk)

(***************************************************************************)
(* Moves.  w and r are the Writer and the Reader that hold the stream      *)
(* after a move; other.w and other.r are the objects moved from.  Before a *)
(* move assignment the object assigned to is other.w (other.r), created on *)
(* a file of its own, other.file.                                          *)
(***************************************************************************)
\* a move that leaves the stream of its source open on the file
MovedFromStillOpen(wr) == wr

\* a Writer after its members were moved from: std::ofstream's move leaves
\* the source with no file; m_totalFileSize is not touched
MovedFrom(wr) == [wr EXCEPT !.is_open = FALSE, !.pos = 0, !.io = 0]

\* a Reader after its members were moved from
ReaderMovedFrom(rr) == [rr EXCEPT !.is_open = FALSE]

\* WavWriter(WavWriter &&other): m_config and m_fileStream are taken from
\* the source, m_totalFileSize starts from its initializer
WriterMoveConstruct ==
    /\ proc = "running" /\ w.life = "live"
    /\ other.w.life = "none" /\ ~other.wmoved
    /\ w' = [w EXCEPT !.m_totalFileSize = 0]
    /\ other' = [other EXCEPT !.w = MovedFrom(w), !.wmoved = TRUE]
    /\ UNCHANGED <<proc, exists, file, hist, r, rd, calc>>

\* WavWriter::create(configuration) of the second Writer, on its own path
OtherWriterCreate(configuration) ==
    /\ proc = "running" /\ w.life = "live"
    /\ other.w.life = "none" /\ ~other.wmoved
    /\ other' = [other EXCEPT
                    !.w = [NoWriter EXCEPT !.life = "live", !.is_open = TRUE,
                                           !.m_config = configuration,
                                           !.pos = 44, !.io = 13],
                    !.file = write_header(configuration),
                    !.exists = TRUE]
    /\ UNCHANGED <<proc, exists, file, w, hist, r, rd, calc>>

\* operator=(WavWriter &&other), the second Writer assigned from the first:
\* m_config and m_fileStream are taken from the source (the stream the
\* destination had is closed by std::ofstream's move assignment, its header
\* as it is) and m_totalFileSize stays the destination's
WriterMoveAssign ==
    /\ proc = "running" /\ w.life = "live"
    /\ other.w.life = "live" /\ ~other.wmoved
    /\ w' = [w EXCEPT !.m_totalFileSize = other.w.m_totalFileSize]
    /\ other' = [other EXCEPT !.w = MovedFrom(w), !.wmoved = TRUE]
    /\ UNCHANGED <<proc, exists, file, hist, r, rd, calc>>

\* close_file() of the second Writer: on the stream it holds, which after a
\* move is what the move left it
OtherWriterClose ==
    /\ proc = "running" /\ other.w.life = "live" /\ other.acts < MaxCloses
    /\ LET closed == WriterClosed(other.w,
                                  IF other.wmoved THEN file ELSE other.file)
       IN  /\ other' = [other EXCEPT
                           !.w = closed.w, !.acts = @ + 1,
                           !.file = IF other.wmoved THEN @ ELSE closed.file]
           /\ file' = IF other.wmoved THEN closed.file ELSE file
    /\ UNCHANGED <<proc, exists, w, hist, r, rd, calc>>

\* ~WavWriter() of the second Writer
OtherWriterDestroy ==
    /\ proc = "running" /\ other.w.life = "live"
    /\ LET closed == WriterClosed(other.w,
                                  IF other.wmoved THEN file ELSE other.file)
       IN  /\ other' = [other EXCEPT
                           !.w = [closed.w EXCEPT !.life = "destroyed",
                                      !.m_totalFileSize = 0, !.pos = 0,
                                      !.io = 0],
                           !.acts = @ + 1,
                           !.file = IF other.wmoved THEN @ ELSE closed.file]
           /\ file' = IF other.wmoved THEN closed.file ELSE file
    /\ UNCHANGED <<proc, exists, w, hist, r, rd, calc>>

\* read_header's chunk loop run to its end: the Reader create returns
RECURSIVE ScanChunks(_, _)
ScanChunks(rr, f) ==
    LET step == ScanChunkStep(rr, f)
    IN  CASE step.go = "loop" -> ScanChunks(step.r, f)
          [] step.go = "true" -> [step.r EXCEPT !.life = "live"]
          [] step.go = "false" -> ReaderAbsent

\* WavReader::create on a file f that is there (ex) or not
ReaderCreated(ex, f) ==
    IF ~ex THEN ReaderAbsent
    ELSE LET opened    == [NoReader EXCEPT !.life = "scan_riff",
                                           !.is_open = TRUE]
             chunkId   == StreamRead(f, opened, 4)
             chunkSize == StreamRead(f, chunkId.r, 4)
             format    == StreamRead(f, chunkSize.r, 4)
         IN  IF chunkId.bytes # TagRIFF \/ format.bytes # TagWAVE
             THEN ReaderAbsent
             ELSE ScanChunks([format.r EXCEPT !.life = "scan_chunks"], f)

\* the files the Readers of a move are opened on
MoveFiles ==
    {RiffFile(TagRIFF, TagWAVE, Chunks(1, v)) :
        v \in {<<PCM, 1, 8000, 16>>, <<PCM, 2, 8000, 8>>}}

OtherFile == RiffFile(TagRIFF, TagWAVE, Chunks(1, <<FLOAT, 1, 8000, 32>>))

\* WavReader(WavReader &&other)
ReaderMoveConstruct ==
    /\ proc = "running" /\ r.life = "live"
    /\ other.r.life = "none" /\ ~other.rmoved
    /\ other' = [other EXCEPT !.r = ReaderMovedFrom(r), !.rmoved = TRUE]
    /\ UNCHANGED <<proc, exists, file, w, hist, r, rd, calc>>

\* WavReader::create of the second Reader, on its own file
OtherReaderCreate ==
    /\ proc = "running" /\ r.life = "live"
    /\ other.r.life = "none" /\ ~other.rmoved
    /\ other' = [other EXCEPT !.r = ReaderCreated(TRUE, OtherFile),
                              !.file = OtherFile, !.exists = TRUE]
    /\ UNCHANGED <<proc, exists, file, w, hist, r, rd, calc>>

\* operator=(WavReader &&other), the second Reader assigned from the first:
\* it has the members of the source, and the source is left without a file
ReaderMoveAssign ==
    /\ proc = "running" /\ r.life = "live"
    /\ other.r.life = "live" /\ ~other.rmoved
    /\ other' = [other EXCEPT !.r = ReaderMovedFrom(r), !.rmoved = TRUE]
    /\ UNCHANGED <<proc, exists, file, w, hist, r, rd, calc>>

\* close_file() of the second Reader
OtherReaderClose ==
    /\ proc = "running" /\ other.r.life = "live" /\ other.acts < MaxCloses
    /\ other' = [other EXCEPT !.r = [@ EXCEPT !.is_open = FALSE],
                              !.acts = @ + 1]
    /\ UNCHANGED <<proc, exists, file, w, hist, r, rd, calc>>

\* ~WavReader() of the second Reader
OtherReaderDestroy ==
    /\ proc = "running" /\ other.r.life = "live"
    /\ other' = [other EXCEPT !.r = [NoReader EXCEPT !.life = "destroyed"],
                              !.acts = @ + 1]
    /\ UNCHANGED <<proc, exists, file, w, hist, r, rd, calc>>

(***************************************************************************)
(* Specification: a Writer is created on a new path, or a Reader on a file *)
(* that is there; the object is used, moved from once, and both objects    *)
(* are used to their ends.                                                 *)
(***************************************************************************)
InitM ==
    /\ proc = "running"
    /\ \/ exists = FALSE /\ file = <<>>
       \/ exists = TRUE /\ file \in MoveFiles
    /\ w = NoWriter
    /\ hist = [passed |-> 0, calls |-> 0, closes |-> 0, np |-> 0,
               sent |-> <<>>]
    /\ r = NoReader
    /\ rd = NoRead
    /\ other = NoOther
    /\ calc = NoCalc

NextM ==
    \/ \E configuration \in Configurations :
          ~exists /\ WriterCreate(configuration, TRUE)
    \/ \E T \in AllowedAudioDataType, count \in 1..MaxFrames,
          ub \in UBOutcomes, heap \in {"abort", "continue"} :
          Write(T, count, w.m_config.numChannels, ub, heap)
    \/ WriterClose
    \/ WriterDestroy
    \/ WriterMoveConstruct
    \/ OtherWriterCreate(DefaultConfiguration)
    \/ WriterMoveAssign
    \/ OtherWriterClose
    \/ OtherWriterDestroy
    \/ w.life = "none" /\ ReaderOpenFile
    \/ ScanRiff
    \/ ScanWave
    \/ ScanChunk
    \/ \E T \in AllowedAudioDataType, count \in 1..MaxFrames,
          ub \in UBOutcomes :
          Read(T, count, ub)
    \/ ReaderClose
    \/ ReaderDestroy
    \/ ReaderMoveConstruct
    \/ OtherReaderCreate
    \/ ReaderMoveAssign
    \/ OtherReaderClose
    \/ OtherReaderDestroy

SpecM == InitM /\ [][NextM]_vars

(***************************************************************************)
(* Functions without state: num_samples and the integer conversions,       *)
(* called on an input, and a conversion called on the result of another.   *)
(***************************************************************************)
BlockAligns == {0, 1, 2, 3, 4, 6, 8, 255, 65535}

DataChunkSizes == {0, 1, 2, 3, 4, 5, 7, 8, 44, 1000, 65535, 65536, MaxInt32}

\* the arguments of the conversions, by their type
IntegerInputs ==
    [uint8_t |-> 0..255,
     int16_t |-> {-32768, -32767, -16384, -257, -256, -255, -129, -128,
                  -127, -1, 0, 1, 127, 128, 129, 255, 256, 257, 16384,
                  32766, 32767},
     int32_t |-> {MinInt32, MinInt32 + 1, -16777217, -16777216, -16777215,
                  -65537, -65536, -65535, -257, -256, -255, -1, 0, 1, 255,
                  256, 257, 65535, 65536, 65537, 16777215, 16777216,
                  16777217, MaxInt32 - 1, MaxInt32}]

\* the conversions between integer types, by the type of their argument
IntegerConverters ==
    [uint8_t |-> {"convert_uint8_to_int16", "convert_uint8_to_int24",
                  "convert_uint8_to_int32"},
     int16_t |-> {"convert_int16_to_uint8", "convert_int16_to_int24",
                  "convert_int16_to_int32"},
     int32_t |-> {"convert_int32_to_uint8", "convert_int32_to_int16",
                  "convert_int32_to_int24"}]

IntegerConvert(fn, sample) ==
    CASE fn = "convert_int16_to_uint8" -> convert_int16_to_uint8(sample)
      [] fn = "convert_int32_to_uint8" -> convert_int32_to_uint8(sample)
      [] fn = "convert_uint8_to_int16" -> convert_uint8_to_int16(sample)
      [] fn = "convert_int32_to_int16" -> convert_int32_to_int16(sample)
      [] fn = "convert_uint8_to_int24" -> convert_uint8_to_int24(sample)
      [] fn = "convert_int16_to_int24" -> convert_int16_to_int24(sample)
      [] fn = "convert_int32_to_int24" -> convert_int32_to_int24(sample)
      [] fn = "convert_uint8_to_int32" -> convert_uint8_to_int32(sample)
      [] fn = "convert_int16_to_int32" -> convert_int16_to_int32(sample)

Call(fn, arg) == [fn |-> fn, arg |-> arg, done |-> FALSE, out |-> 0]

CalcInputs ==
    {Call("num_samples", <<b, d>>) : b \in BlockAligns, d \in DataChunkSizes}
    \cup UNION {{Call(fn, <<x>>) : fn \in IntegerConverters[T],
                                   x \in IntegerInputs[T]} :
                   T \in DOMAIN IntegerConverters}

\* num_samples() on a configuration with the given blockAlign and
\* dataChunkSize
NumSamplesCall ==
    /\ calc.fn = "num_samples" /\ ~calc.done
    /\ calc' = [calc EXCEPT
                   !.done = TRUE,
                   !.out = num_samples(
                       [DefaultConfiguration EXCEPT
                           !.blockAlign = calc.arg[1],
                           !.dataChunkSize = calc.arg[2]])]
    /\ UNCHANGED <<proc, exists, file, w, hist, r, rd, other>>

\* a conversion between integer types
ConvertCall ==
    /\ calc.fn \in UNION {IntegerConverters[T] : T \in DOMAIN IntegerConverters}
    /\ ~calc.done
    /\ calc' = [calc EXCEPT !.done = TRUE,
                            !.out = IntegerConvert(calc.fn, calc.arg[1])]
    /\ UNCHANGED <<proc, exists, file, w, hist, r, rd, other>>

\* the type of the value a conversion between integer types returns
ResultType(fn) ==
    CASE fn \in {"convert_int16_to_uint8", "convert_int32_to_uint8"} ->
             "uint8_t"
      [] fn \in {"convert_uint8_to_int16", "convert_int32_to_int16"} ->
             "int16_t"
      [] fn \in {"convert_uint8_to_int32", "convert_int16_to_int32"} ->
             "int32_t"
      [] OTHER -> "int24"

\* a conversion called on the value the conversion before it returned; the
\* argument and the name of that first call are kept after the new argument
ConvertResult(fn) ==
    /\ calc.fn \in UNION {IntegerConverters[T] : T \in DOMAIN IntegerConverters}
    /\ calc.done /\ Len(calc.arg) = 1
    /\ ResultType(calc.fn) \in DOMAIN IntegerConverters
    /\ fn \in IntegerConverters[ResultType(calc.fn)]
    /\ calc' = [fn |-> fn, arg |-> <<calc.out, calc.arg[1], calc.fn>>,
                done |-> TRUE, out |-> IntegerConvert(fn, calc.out)]
    /\ UNCHANGED <<proc, exists, file, w, hist, r, rd, other>>

InitF ==
    /\ proc = "running"
    /\ exists = FALSE
    /\ file = <<>>
    /\ w = NoWriter
    /\ hist = [passed |-> 0, calls |-> 0, closes |-> 0, np |-> 0,
               sent |-> <<>>]
    /\ r = NoReader
    /\ rd = NoRead
    /\ other = NoOther
    /\ calc \in CalcInputs

NextF ==
    \/ NumSamplesCall
    \/ ConvertCall
    \/ \E fn \in UNION {IntegerConverters[T] : T \in DOMAIN IntegerConverters} :
          ConvertResult(fn)

SpecF == InitF /\ [][NextF]_vars

(***************************************************************************)
(* Properties.                                                             *)
(***************************************************************************)
\* the u32 stored at byte offset off of f
U32At(f, off) == LEValue(Slice(f, off, 4))

\* the frames the Writer sent to its stream
FramesSent == Len(hist.sent[1])

\* a (format, bitDepth) pair the library supports
SupportedPair(m_config) == m_config.format = PCM \/ m_config.bitDepth = 32

\* WavReader::create has returned
ScanOver == r.life \in {"absent", "live", "destroyed"}

\* the element type that carries the on-disk representation unconverted
IdentityType(m_config) ==
    IF m_config.format = FLOAT THEN "float"
    ELSE CASE m_config.bitDepth = 8 -> "uint8_t"
           [] m_config.bitDepth = 16 -> "int16_t"
           [] m_config.bitDepth = 32 -> "int32_t"
           [] OTHER -> "no type"

\* C1: a file written by a Writer with a supported (format, bitDepth) pair
\* and closed opens in the Reader, and the Reader's configuration has the
\* Writer's sampleRate, numChannels, bitDepth and format.
C1_RoundTripConfiguration ==
    (/\ w.life = "destroyed" /\ SupportedPair(w.m_config)
     /\ r.life \in {"absent", "live"})
    => /\ r.life = "live"
       /\ r.m_config.sampleRate = w.m_config.sampleRate
       /\ r.m_config.numChannels = w.m_config.numChannels
       /\ r.m_config.bitDepth = w.m_config.bitDepth
       /\ r.m_config.format = w.m_config.format

C1_Witness ==
    /\ w.life = "destroyed" /\ r.life = "live"
    /\ w.m_config.format = PCM /\ w.m_config.bitDepth = 24
    /\ w.m_config.numChannels = MaxChannels
    /\ FramesSent = MaxFrames

\* the read made is the one C2 is about: every sample was passed as the
\* type that carries the on-disk representation, and the first read of the
\* file asks for that type and for all the frames written
C2_Case ==
    /\ w.life = "destroyed" /\ rd.T # "none" /\ rd.good /\ rd.pos = 44
    /\ rd.T = IdentityType(w.m_config)
    /\ rd.count = FramesSent
    /\ \A c \in 1..Len(hist.sent) : \A i \in 1..Len(hist.sent[c]) :
           hist.sent[c][i][1] = rd.T

\* C2: when input type, on-disk representation and output type coincide,
\* reading all the frames of the closed file returns for each channel the
\* samples passed for it, in order and bit for bit.
C2_IdentityRoundTrip ==
    C2_Case =>
        rd.out = [c \in 1..Len(hist.sent) |->
                     [i \in 1..FramesSent |-> hist.sent[c][i][2]]]

C2_Witness ==
    /\ C2_Case /\ rd.T = "float"
    /\ w.m_config.numChannels = MaxChannels /\ FramesSent = MaxFrames

\* C3: once the Writer is closed, the u32 at offset 40 is T = frames sent x
\* numChannels x bitDepth/8, the u32 at offset 4 is 36 + T, and T bytes
\* follow the 44-byte header.
C3_SizeFieldsAfterClose ==
    (w.life \in {"live", "destroyed"} /\ ~w.is_open) =>
        LET T == FramesSent * w.m_config.numChannels
                     * (w.m_config.bitDepth \div 8)
        IN  /\ U32At(file, 40) = T
            /\ U32At(file, 4) = 36 + T
            /\ Len(file) - 44 = T

C3_Witness ==
    /\ w.life = "live" /\ ~w.is_open /\ hist.closes = 1
    /\ hist.calls = 2 /\ FramesSent = MaxFrames
    /\ w.m_config.bitDepth = 24 /\ w.m_config.numChannels = 1

\* C4: the step that ends a Writer's lifetime leaves the header finalized
\* exactly once, with the sizes of the payload written, and the stream
\* closed; the file is the one an explicit close leaves in the same state.
C4_LifetimeEndFinalizesOnce ==
    [][(w.life = "live" /\ w'.life = "destroyed") =>
          /\ w'.finalized = 1 /\ ~w'.is_open
          /\ file' = WriterClosed(w, file).file
          /\ U32At(file', 40) = Len(file') - 44
          /\ U32At(file', 4) = Len(file') - 8]_vars

C4_Witness ==
    /\ w.life = "destroyed" /\ w.finalized = 1 /\ ~w.is_open
    /\ FramesSent = MaxFrames /\ U32At(file, 40) = Len(file) - 44
    /\ Len(file) > 44

\* C5: a close_file call on a Writer that is already closed changes neither
\* the file nor the Writer: no header patch, no seek, no write.
C5_CloseIdempotent ==
    [][(/\ w.life = "live" /\ ~w.is_open /\ w'.life = "live"
        /\ hist'.closes # hist.closes)
       => (w' = w /\ file' = file)]_vars

C5_Witness ==
    /\ w.life = "live" /\ ~w.is_open /\ hist.closes = MaxCloses
    /\ w.finalized = 1 /\ FramesSent > 0

\* the complete frames of the file from the position of the last read on
FramesAvailable ==
    IF rd.pos >= Len(file) THEN 0
    ELSE (Len(file) - rd.pos)
             \div (r.m_config.numChannels * (r.m_config.bitDepth \div 8))

\* C6: a read<T>(count) with fewer than count complete frames left returns,
\* for every channel, exactly the complete frames that are left.
C6_ShortReadReturnsAvailable ==
    (/\ w.life = "destroyed" /\ r.life = "live" /\ rd.T # "none" /\ rd.good
     /\ rd.count > FramesAvailable)
    => /\ Len(rd.out) = r.m_config.numChannels
       /\ \A c \in 1..Len(rd.out) : Len(rd.out[c]) = FramesAvailable

\* the first chunk of the file is a 16-byte fmt chunk and the file ends
\* inside it or inside the header of the chunk after it
FmtFirstCut(f) ==
    Slice(f, 12, 4) = TagFmt /\ Len(f) >= 20 /\ U32At(f, 16) = 16
        /\ Len(f) < 44

\* the four bytes of tag occur somewhere in f
HasTag(f, tag) == \E k \in 0..(Len(f) - 4) : Slice(f, k, 4) = tag

\* a file WavReader::create cannot open: not there, no RIFF id, no WAVE id,
\* no fmt or no data chunk to find, or cut short where the scan reads
C7_Case ==
    \/ ~exists
    \/ Slice(file, 0, 4) # TagRIFF
    \/ Slice(file, 8, 4) # TagWAVE
    \/ ~HasTag(file, TagFmt)
    \/ ~HasTag(file, TagData)
    \/ FmtFirstCut(file)

\* C7: for such a file create returns no Reader, and the stream it opened
\* is closed.
C7_FailedOpenAbsent ==
    (ScanOver /\ C7_Case) => (r.life = "absent" /\ ~r.is_open)

C7_Witness ==
    /\ r.life = "absent" /\ exists
    /\ Slice(file, 0, 4) = TagRIFF /\ Slice(file, 8, 4) = TagWAVE
    /\ HasTag(file, TagFmt) /\ ~HasTag(file, TagData) /\ ~FmtFirstCut(file)

\* the offset of the first fmt chunk of f, its chunks taken whole from
\* offset off on; -1 if there is none
RECURSIVE FmtOffset(_, _)
FmtOffset(f, off) ==
    IF off + 8 > Len(f) THEN -1
    ELSE IF Slice(f, off, 4) = TagFmt THEN off
    ELSE FmtOffset(f, off + 8 + ((U32At(f, off + 4) + 1) \div 2) * 2)

\* the 16 fields of a fmt chunk carry a value the library does not support
UnsupportedFmt(bytes) ==
    LET audioFormat == LEValue(SubSeq(bytes, 1, 2))
        numChannels == LEValue(SubSeq(bytes, 3, 4))
        sampleRate  == LEValue(SubSeq(bytes, 5, 8))
        bitDepth    == LEValue(SubSeq(bytes, 15, 16))
    IN  \/ audioFormat \notin {1, 3}
        \/ numChannels = 0
        \/ bitDepth \notin {8, 16, 24, 32}
        \/ \A k \in 1..Len(WavSampleRate) : sampleRate # WavSampleRate[k]
        \/ audioFormat = 3 /\ bitDepth # 32

\* C8: create returns no Reader for a file whose fmt chunk carries an
\* unsupported value, whatever chunks come before or after that chunk.
C8_UnsupportedFmtAbsent ==
    (/\ ScanOver /\ exists
     /\ Slice(file, 0, 4) = TagRIFF /\ Slice(file, 8, 4) = TagWAVE
     /\ FmtOffset(file, 12) >= 0
     /\ FmtOffset(file, 12) + 24 <= Len(file)
     /\ UnsupportedFmt(Slice(file, FmtOffset(file, 12) + 8, 16)))
    => r.life = "absent"

\* C9: WavWriter::create returns a Writer only for a valid configuration:
\* never for FLOAT with a bit depth other than 32.
C9_CreateValidatesConfiguration ==
    w.life = "live" =>
        ~(w.m_config.format = FLOAT /\ w.m_config.bitDepth # 32)

\* the sample stored at byte offset off of the file, as the type that
\* carries the representation of m_config
StoredSample(m_config, f, off) ==
    IF m_config.format = FLOAT THEN ObjectValue("float", Slice(f, off, 4))
    ELSE CASE m_config.bitDepth = 8 -> ObjectValue("uint8_t", Slice(f, off, 1))
           [] m_config.bitDepth = 16 -> ObjectValue("int16_t", Slice(f, off, 2))
           [] m_config.bitDepth = 24 ->
                  LET u == LEValue(Slice(f, off, 3))
                  IN  IF u >= 8388608 THEN u - 16777216 ELSE u
           [] m_config.bitDepth = 32 -> ObjectValue("int32_t", Slice(f, off, 4))

\* whether y is what the Conversion Matrix gives for stored sample x and
\* output type T; for 24-bit PCM the int32 output is the stored value
MatrixGives(m_config, T, x, y) ==
    IF m_config.format = FLOAT
    THEN \E ub \in UBOutcomes : y = FromFloat32(T, x, ub)
    ELSE CASE m_config.bitDepth = 8 -> y = FromPcm8(T, x)
           [] m_config.bitDepth = 16 -> y = FromPcm16(T, x)
           [] m_config.bitDepth = 24 -> (T = "int32_t" => y = x)
           [] m_config.bitDepth = 32 -> y = FromPcm32(T, x)

\* C10: every sample read<T> returns is the Conversion Matrix's value for
\* the stored sample, and the stored sample itself when T carries the
\* on-disk representation.
C10_ReadAppliesMatrix ==
    (w.life = "destroyed" /\ r.life = "live" /\ rd.T # "none" /\ rd.good) =>
        LET n   == r.m_config.numChannels
            bps == r.m_config.bitDepth \div 8
        IN  \A c \in 1..Len(rd.out) : \A i \in 1..Len(rd.out[c]) :
                LET off == rd.pos + ((i - 1) * n + (c - 1)) * bps
                IN  off + bps <= Len(file) =>
                        MatrixGives(r.m_config, rd.T,
                                    StoredSample(r.m_config, file, off),
                                    rd.out[c][i])

\* C11: a write call whose pointer count differs from numChannels ends
\* the process before a sample is converted or appended: the file and the
\* Writer, its running byte total included, are what they were, and the
\* call does not return.
C11_PointerCountMismatchAborts ==
    [][(hist'.calls = hist.calls + 1 /\ hist'.np # w.m_config.numChannels)
          => (proc' = "aborted" /\ file' = file /\ w' = w)]_vars

C11_Witness ==
    /\ proc = "aborted" /\ w.life = "live" /\ w.is_open
    /\ hist.np # w.m_config.numChannels
    /\ hist.passed > 0 /\ w.m_totalFileSize > 0

\* C12: a file handle has one owner.  After a move construction or a move
\* assignment of a Writer or a Reader the source holds no open stream, the
\* destination holds the stream as the source held it, and a close or the
\* destruction of the source changes neither the file nor the destination.
C12_MoveLeavesOneOwner ==
    /\ [](other.wmoved => ~other.w.is_open)
    /\ [](other.rmoved => ~other.r.is_open)
    /\ [][(~other.wmoved /\ other'.wmoved)
             => /\ w'.is_open = w.is_open /\ w'.pos = w.pos
                /\ w'.m_config = w.m_config /\ file' = file]_vars
    /\ [][(~other.rmoved /\ other'.rmoved) => (r' = r /\ file' = file)]_vars
    /\ [][((other.wmoved \/ other.rmoved) /\ other'.acts = other.acts + 1)
             => (file' = file /\ w' = w /\ r' = r)]_vars

C12_Witness ==
    /\ other.wmoved /\ other.w.life = "destroyed" /\ other.acts = 2
    /\ w.life = "live" /\ w.is_open /\ w.m_totalFileSize > 0

\* C13: num_samples() is 0 when blockAlign is 0, whatever dataChunkSize
\* is, and otherwise the quotient of dataChunkSize by blockAlign, rounded
\* down.
C13_NumSamples ==
    (calc.fn = "num_samples" /\ calc.done) =>
        LET blockAlign    == calc.arg[1]
            dataChunkSize == calc.arg[2]
        IN  IF blockAlign = 0 THEN calc.out = 0
            ELSE /\ calc.out >= 0
                 /\ dataChunkSize - calc.out * blockAlign >= 0
                 /\ dataChunkSize - calc.out * blockAlign < blockAlign

C13_Witness ==
    /\ calc.fn = "num_samples" /\ calc.done
    /\ calc.arg[1] = 0 /\ calc.arg[2] = 1000 /\ calc.out = 0

\* C15: each conversion between integer types gives the value of its
\* formula, computed without overflow, in the range of its result type.
C15_IntegerConversions ==
    (calc.fn # "num_samples" /\ calc.done) =>
        LET x == calc.arg[1]
            y == calc.out
        IN  CASE calc.fn = "convert_int16_to_uint8" ->
                     y = ((x \div 256) + 128) % 256 /\ y \in 0..255
              [] calc.fn = "convert_int32_to_uint8" ->
                     y = ((x \div 16777216) + 128) % 256 /\ y \in 0..255
              [] calc.fn = "convert_uint8_to_int16" ->
                     y = (x - 128) * 256 /\ y \in -32768..32767
              [] calc.fn = "convert_int32_to_int16" ->
                     y = x \div 65536 /\ y \in -32768..32767
              [] calc.fn = "convert_uint8_to_int24" ->
                     y = (x - 128) * 65536 /\ y \in -8388608..8388607
              [] calc.fn = "convert_int16_to_int24" ->
                     y = x * 256 /\ y \in -8388608..8388607
              [] calc.fn = "convert_int32_to_int24" ->
                     y = x \div 256 /\ y \in -8388608..8388607
              [] calc.fn = "convert_uint8_to_int32" ->
                     y = (x - 128) * 16777216 /\ y >= MinInt32
              [] calc.fn = "convert_int16_to_int32" ->
                     y = x * 65536 /\ y >= MinInt32 /\ y <= MaxInt32

C15_Witness ==
    /\ calc.fn = "convert_int32_to_uint8" /\ calc.done
    /\ calc.arg[1] = -1 /\ calc.out = 127

\* the bit pattern of |a - b| for float bit patterns a and b; patterns of
\* floats that are not negative are ordered as the floats are
FAbsDifference(a, b) ==
    LET d == FEncode(FSub(FDecode(a), FDecode(b)))
    IN  IF d < 0 THEN d - MinInt32 ELSE d

\* the largest difference the round trip may show, as a float bit pattern:
\* 1/127.5f for PCM8, 0.01f for PCM16, one step 2^-31 for PCM32
RoundTripTolerance(bitDepth) ==
    CASE bitDepth = 8 -> 1006665857
      [] bitDepth = 16 -> 1008981770
      [] bitDepth = 32 -> 805306368

\* float samples were written to a PCM8, PCM16 or PCM32 file and all its
\* frames are read back as float
C14_Case ==
    /\ w.life = "destroyed" /\ rd.T = "float" /\ rd.good /\ rd.pos = 44
    /\ w.m_config.format = PCM /\ w.m_config.bitDepth \in {8, 16, 32}
    /\ rd.count = FramesSent /\ FramesSent > 0
    /\ \A c \in 1..Len(hist.sent) : \A i \in 1..Len(hist.sent[c]) :
           hist.sent[c][i][1] = "float"

\* C14: a float sample in [-1.0, 1.0], 1.0 and -1.0 included, written to a
\* PCM file and read back as float differs from what was written by at
\* most one quantization step for PCM32, by at most 1/127.5 for PCM8 and
\* by at most 0.01 for PCM16.
C14_FloatRoundTripClose ==
    C14_Case =>
        /\ Len(rd.out) = Len(hist.sent)
        /\ \A c \in 1..Len(hist.sent) :
               /\ Len(rd.out[c]) = FramesSent
               /\ \A i \in 1..FramesSent :
                      FAbsDifference(rd.out[c][i], hist.sent[c][i][2])
                          <= RoundTripTolerance(w.m_config.bitDepth)

\* the chunks that follow the chunks of another kind at the head of a chunk
\* sequence, each of them its 8-byte header, its payload and, after a
\* payload of odd length, one pad byte
RECURSIVE StripUnknown(_)
StripUnknown(chunks) ==
    IF Len(chunks) < 8 THEN chunks
    ELSE LET id   == SubSeq(chunks, 1, 4)
             size == LEValue(SubSeq(chunks, 5, 8))
             whole == 8 + size + (size % 2)
         IN  IF id = TagFmt \/ id = TagData \/ whole > Len(chunks)
             THEN chunks
             ELSE StripUnknown(SubSeq(chunks, whole + 1, Len(chunks)))

\* the file without the chunks of another kind before its first fmt or
\* data chunk
WithoutLeadingUnknown(f) ==
    SubSeq(f, 1, 12) \o StripUnknown(SubSeq(f, 13, Len(f)))

C16_Case ==
    /\ r.life \in {"absent", "live"} /\ Len(file) >= 20
    /\ WithoutLeadingUnknown(file) # file

\* C16: chunks that are neither fmt nor data, of odd or even declared size,
\* before the fmt and data chunks are skipped whole: create returns what it
\* returns for the file without them, a Reader with the same configuration
\* or none.
C16_UnknownChunksSkipped ==
    C16_Case =>
        LET plain == ReaderCreated(TRUE, WithoutLeadingUnknown(file))
        IN  /\ r.life = plain.life
            /\ r.life = "live" => r.m_config = plain.m_config

C16_Witness ==
    /\ C16_Case /\ r.life = "live" /\ r.m_config.numChannels = 2
    /\ LEValue(Slice(file, 16, 4)) = 1 /\ LEValue(Slice(file, 26, 4)) = 0

\* what the Conversion Matrix gives for an input sample x of type T on its
\* way to a file of the given configuration
MatrixStores(m_config, T, x, ub) ==
    IF m_config.format = FLOAT THEN ToFloat32(T, x)
    ELSE CASE m_config.bitDepth = 8 -> ToPcm8(T, x, ub)
           [] m_config.bitDepth = 16 -> ToPcm16(T, x, ub)
           [] m_config.bitDepth = 24 -> ToPcm24(T, x, ub)
           [] m_config.bitDepth = 32 -> ToPcm32(T, x, ub)

\* a Writer has sent frames to its stream
FramesWritten ==
    /\ proc = "running" /\ w.life \in {"live", "destroyed"}
    /\ hist.sent # <<>> /\ FramesSent > 0

\* C17: on every write path the sample of frame i, channel c, frames
\* counted over all calls, is in sample slot i * numChannels + c of the
\* payload: it starts at byte offset 44 + (i * numChannels + c) *
\* bytesPerSample, and the payload ends with the last frame.
C17_FrameMajorLayout ==
    FramesWritten =>
        LET n   == w.m_config.numChannels
            bps == w.m_config.bitDepth \div 8
        IN  /\ Len(file) = 44 + FramesSent * n * bps
            /\ \A c \in 1..n : \A i \in 1..FramesSent :
                   \E ub \in UBOutcomes :
                       StoredSample(w.m_config, file,
                                    44 + ((i - 1) * n + (c - 1)) * bps)
                           = MatrixStores(w.m_config, hist.sent[c][i][1],
                                          hist.sent[c][i][2], ub)

\* C18: a 24-bit Writer stores the sample of frame i, channel c as three
\* bytes, low byte first, at offsets (i * numChannels + c) * 3 + 0, 1, 2 of
\* the payload, with no padding, for every channel count.
C18_Pcm24ThreeBytes ==
    (FramesWritten /\ w.m_config.format = PCM /\ w.m_config.bitDepth = 24) =>
        LET n == w.m_config.numChannels
        IN  /\ Len(file) = 44 + FramesSent * n * 3
            /\ \A c \in 1..n : \A i \in 1..FramesSent :
                   \E ub \in UBOutcomes : \A k \in 0..2 :
                       file[44 + ((i - 1) * n + (c - 1)) * 3 + k + 1]
                           = Byte(MatrixStores(w.m_config, hist.sent[c][i][1],
                                               hist.sent[c][i][2], ub), k)

\* a read call on a 24-bit PCM file whose stream was open and good
C19_Case ==
    /\ r.life = "live" /\ rd.T # "none" /\ rd.good
    /\ r.m_config.format = PCM /\ r.m_config.bitDepth = 24

\* C19: the value a read of a 24-bit file hands to the conversion for frame
\* i, channel c is b0 | (b1 << 8) | (b2 << 16) of the three bytes at offset
\* (i * numChannels + c) * 3 from where the read began, sign-extended from
\* bit 23, and lies in -8388608..8388607.
C19_Pcm24SignExtended ==
    C19_Case =>
        LET n == r.m_config.numChannels
        IN  /\ Len(rd.raw) = n
            /\ \A c \in 1..n :
                   /\ Len(rd.raw[c]) = rd.count
                   /\ \A i \in 1..rd.count :
                          LET off == rd.pos + ((i - 1) * n + (c - 1)) * 3
                              b0  == file[off + 1]
                              b1  == file[off + 2]
                              b2  == file[off + 3]
                              u   == b0 + 256 * b1 + 65536 * b2
                          IN  /\ rd.raw[c][i] \in -8388608..8388607
                              /\ off + 3 <= Len(file) =>
                                     rd.raw[c][i] = IF b2 >= 128
                                                    THEN u - 16777216
                                                    ELSE u

C19_Witness ==
    /\ C19_Case /\ rd.count > 0
    /\ rd.pos + 3 <= Len(file) /\ rd.raw[1][1] < 0

\* the unsigned 16-bit little-endian value at offset off of f
U16At(f, off) == LEValue(Slice(f, off, 2))

\* the first 44 bytes of f are the header of m_config with both size
\* fields zero
ProvisionalHeader(f, m_config) ==
    /\ Len(f) >= 44
    /\ Slice(f, 0, 4) = <<82, 73, 70, 70>>
    /\ U32At(f, 4) = 0
    /\ Slice(f, 8, 4) = <<87, 65, 86, 69>>
    /\ Slice(f, 12, 4) = <<102, 109, 116, 32>>
    /\ U32At(f, 16) = 16
    /\ U16At(f, 20) = m_config.format
    /\ U16At(f, 22) = m_config.numChannels
    /\ U32At(f, 24) = m_config.sampleRate
    /\ U32At(f, 28) = (m_config.sampleRate * m_config.numChannels
                           * m_config.bitDepth) \div 8
    /\ U16At(f, 32) = (m_config.numChannels * m_config.bitDepth) \div 8
    /\ U16At(f, 34) = m_config.bitDepth
    /\ Slice(f, 36, 4) = <<100, 97, 116, 97>>
    /\ U32At(f, 40) = 0

\* C20: while the Writer's stream is open the first 44 bytes of the file
\* are the provisional header, and a write leaves every byte the file had
\* as it is and appends after them, at offset 44 or later.
C20_ProvisionalHeaderKept ==
    /\ []((proc = "running" /\ w.life = "live" /\ w.is_open)
             => ProvisionalHeader(file, w.m_config))
    /\ [][(w.life = "live" /\ w.is_open /\ w'.is_open)
             => /\ Len(file') >= Len(file) /\ Len(file) >= 44
                /\ Slice(file', 0, Len(file)) = file]_vars

C20_Witness ==
    /\ proc = "running" /\ w.life = "live" /\ w.is_open
    /\ hist.calls = 2 /\ FramesSent = MaxFrames
    /\ w.m_config.numChannels = MaxChannels /\ Len(file) > 44

\* C21: after a successful open the configuration's blockAlign is
\* numChannels x (bitDepth / 8) of the numChannels and bitDepth parsed.
C21_BlockAlignDerived ==
    r.life = "live" =>
        r.m_config.blockAlign
            = r.m_config.numChannels * (r.m_config.bitDepth \div 8)

\* C22: after a successful open the configuration's numChannels is at
\* least 1 and is the 16-bit channel count of the file's fmt chunk, for
\* every count from 1 to 65535.
C22_NumChannelsKept ==
    (r.life = "live" /\ FmtOffset(file, 12) >= 0) =>
        /\ r.m_config.numChannels >= 1
        /\ r.m_config.numChannels = U16At(file, FmtOffset(file, 12) + 10)

\* C23: the header scan ends on every file: a pass of the chunk loop that
\* does not end the loop has moved the stream on by 8 bytes or more, no
\* pass follows once fmt and data are both found, and read_header returns.
C23_ScanTerminates ==
    /\ [][(r.life = "scan_chunks" /\ r'.life = "scan_chunks")
             => (r'.pos >= r.pos + 8 /\ ~(r.foundFmt /\ r.foundData))]_vars
    /\ (r.life = "scan_riff") ~> ScanOver

C23_Witness ==
    /\ r.life = "absent" /\ exists /\ U32At(file, 16) = 2147483392
    /\ Slice(file, 0, 4) = TagRIFF /\ Slice(file, 8, 4) = TagWAVE

\* the offset of the first data chunk of f at or after off, the chunks taken
\* by their declared sizes, or -1
RECURSIVE DataOffset(_, _)
DataOffset(f, off) ==
    IF off + 8 > Len(f) THEN -1
    ELSE IF Slice(f, off, 4) = TagData THEN off
    ELSE DataOffset(f, off + 8 + ((U32At(f, off + 4) + 1) \div 2) * 2)

\* C24: after a successful open the read position is the first payload byte
\* of the data chunk whose size is dataChunkSize, fmt before data or data
\* before fmt.
C24_PositionAtPayload ==
    (r.life = "live" /\ rd.T = "none") =>
        /\ DataOffset(file, 12) >= 0
        /\ r.m_config.dataChunkSize = U32At(file, DataOffset(file, 12) + 4)
        /\ r.pos = DataOffset(file, 12) + 8

\* C25: the reads of an opened file take no byte from outside the payload of
\* its data chunk, also when further chunks or bytes follow that chunk: the
\* read position never passes the end of the payload.
C25_ReadsStayInPayload ==
    (/\ r.life = "live" /\ rd.T # "none"
     /\ FmtOffset(file, 12) >= 0
     /\ FmtOffset(file, 12) < DataOffset(file, 12))
    => r.pos <= DataOffset(file, 12) + 8 + r.m_config.dataChunkSize

\* the bytes of one frame in the file of an opened Reader
FrameBytes(m_config) == m_config.numChannels * (m_config.bitDepth \div 8)

\* the end of the payload of the data chunk, or of the file when it is cut
PayloadEnd ==
    IF DataOffset(file, 12) + 8 + r.m_config.dataChunkSize < Len(file)
    THEN DataOffset(file, 12) + 8 + r.m_config.dataChunkSize
    ELSE Len(file)

\* per channel, the buffer of one read followed by the buffer of the next
Concatenated(first, second) ==
    Tuple([j \in 1..Len(first) |-> first[j] \o second[j]])

\* C26: successive reads return consecutive frames: when a read<T>(a) is
\* followed by a read<T>(b) and a + b complete frames were left in the data
\* chunk, the two buffers of every channel, one after the other, are the
\* buffer a single read<T>(a + b) returns from the position of the first.
C26_SuccessiveReadsConsecutive ==
    [][(/\ r.life = "live" /\ r'.life = "live" /\ r.is_open
        /\ rd.T # "none" /\ rd.good /\ rd' # rd /\ rd'.T = rd.T
        /\ rd.pos + (rd.count + rd'.count) * FrameBytes(r.m_config)
               <= PayloadEnd)
       => \E ub \in UBOutcomes :
              Concatenated(rd.out, rd'.out)
                  = read(rd.T, rd.count + rd'.count,
                         [r EXCEPT !.pos = rd.pos], file, ub).out]_vars

\* a second full read has followed a first one inside the data chunk
C26_Witness ==
    /\ r.life = "live" /\ rd.T # "none" /\ rd.good
    /\ rd.pos > DataOffset(file, 12) + 8
    /\ r.pos = rd.pos + rd.count * FrameBytes(r.m_config)
    /\ r.pos <= PayloadEnd
    /\ rd.out[1][1] # rd.out[1][Len(rd.out[1])]

\* C27: a move leaves the Writer's total of data bytes as it was: once the
\* destination of a move construction or a move assignment is closed, the
\* u32 at offset 40 is the number of payload bytes written before and after
\* the move, and the u32 at offset 4 is 36 more.
C27_MoveKeepsTotal ==
    (other.wmoved /\ w.life \in {"live", "destroyed"} /\ ~w.is_open) =>
        /\ U32At(file, 40) = Len(file) - 44
        /\ U32At(file, 4) = 36 + (Len(file) - 44)

\* C28: the file of a Writer that is move-assigned onto is finalized before
\* its handle is released: it never stays with the zero placeholders in its
\* size fields.
C28_AssignedOverFinalized ==
    (other.wmoved /\ other.exists) =>
        /\ U32At(other.file, 4) = 36 + (Len(other.file) - 44)
        /\ U32At(other.file, 40) = Len(other.file) - 44

\* the arrays a write<T>(count, ...) call passes for the Writer's channels
PassedArrays(T, count) ==
    LET np == w.m_config.numChannels
    IN  Tuple([c \in 1..np |-> Tuple([i \in 1..count |->
            InputSample(T, hist.passed + i - 1, c - 1, np)])])

\* C29: no write path stores past the end of its interleaved buffer: on
\* every write call that passes the assertions, every index stored to is
\* smaller than the size of the buffer.
C29_StoresInsideBuffer ==
    [][\A T \in AllowedAudioDataType, count \in 1..MaxFrames,
          ub \in UBOutcomes, heap \in {"abort", "continue"} :
          (/\ Write(T, count, w.m_config.numChannels, ub, heap)
           /\ ~(w.m_config.format = FLOAT /\ w.m_config.bitDepth # 32))
          => ~write_buffer(T, PassedArrays(T, count), count, w.m_config,
                           ub).pastEnd]_vars

\* the conversion `second` was called on what `first` returned for some x
Composed(first, second) ==
    /\ calc.done /\ Len(calc.arg) = 3
    /\ calc.arg[3] = first /\ calc.fn = second

\* C30: widening an integer sample and narrowing it back gives the sample:
\* uint8 through int16, uint8 through int32, int16 through int32; and the
\* widenings compose: uint8 to int16 to int32 is uint8 to int32, and uint8
\* to int16 to int24 is uint8 to int24.
C30_WidenNarrowIdentity ==
    /\ Composed("convert_uint8_to_int16", "convert_int16_to_uint8")
           => calc.out = calc.arg[2]
    /\ Composed("convert_uint8_to_int32", "convert_int32_to_uint8")
           => calc.out = calc.arg[2]
    /\ Composed("convert_int16_to_int32", "convert_int32_to_int16")
           => calc.out = calc.arg[2]
    /\ Composed("convert_uint8_to_int16", "convert_int16_to_int32")
           => calc.out = convert_uint8_to_int32(calc.arg[2])
    /\ Composed("convert_uint8_to_int16", "convert_int16_to_int24")
           => calc.out = convert_uint8_to_int24(calc.arg[2])

C30_Witness ==
    /\ Composed("convert_int16_to_int32", "convert_int32_to_int16")
    /\ calc.arg[2] = -32768 /\ calc.arg[1] = MinInt32 /\ calc.out = -32768


====
